---- MODULE Spec2Model ----
(***************************************************************************)
(* Overthinking Meter (src/app.py): the episode log (load_thoughts,        *)
(* save_thoughts, log_overthinking), the weekly filter, the daily CSV      *)
(* reader, the series trend and the menu loop of main().                   *)
(*                                                                         *)
(* Text is modelled as a sequence of one-character strings, so that        *)
(* strip(), split(), isdigit(), int(), float() and the f-string that       *)
(* writes a record are computed character by character.  Three kinds of    *)
(* "character" stand for a run of characters that none of these            *)
(* operations looks into: a word ("w", "x", a category name), an emoji,    *)
(* and the 19 characters of a formatted instant ("T0", "T1", ...).         *)
(* "E1".."E7" are the emoji of CATEGORIES, "sup2" is SUPERSCRIPT TWO.      *)
(***************************************************************************)
EXTENDS Integers, Sequences, FiniteSets, TLC

VARIABLES
    pc,          \* position of main(): "boot", "menu", "exited", or a harness position
    dry_run,     \* OverthinkingTracker.dry_run
    audit,       \* harness: the run keeps notice and analysed (they stay idle otherwise)
    thoughts,    \* OverthinkingTracker.thoughts
    logfile,     \* THOUGHTS_FILE on disk: [exists, lines]
    saved,       \* history: save_thoughts has rewritten THOUGHTS_FILE in this session
    save_calls,  \* history: the number of calls of save_thoughts in this session
    write_failed,\* history: an open(THOUGHTS_FILE, 'w') has failed in this session
    choice,      \* main(): the input the last pass of the loop read (empty: it read none)
    ran,         \* history: the handler the last menu input dispatched to
    csvfile,     \* DAILY_DATA_FILE on disk: [exists, lines]
    last_stats,  \* main.last_stats ([set |-> FALSE] until first assigned)
    last_data,   \* main.last_data
    report,      \* REPORT_FILE on disk: [exists, stats, entries]
    notice,      \* the outcome message the last pass of the menu loop printed
    analysed,    \* history: whether the last analyze_daily_data found data, and the last data found
    reloaded,    \* harness: the list load_thoughts reads back from a saved file
    now,         \* harness: the reference instant of weekly_summary
    weekly,      \* harness: weekly_thoughts of weekly_summary
    minutes,     \* harness: the argument of _calculate_trend
    trend,       \* harness: the value _calculate_trend returned
    data,        \* harness: the list read_daily_data returned
    entered,     \* harness: what was typed at the prompts of the last log_overthinking
    insights,    \* harness: what analyze_patterns computed
    wtrend,      \* harness: the weekly trend weekly_summary printed ("none": no trend)
    daily_stats  \* harness: the value calculate_stats returned

vars == <<pc, dry_run, audit, thoughts, logfile, saved, save_calls, write_failed, choice, ran,
          csvfile, last_stats, last_data, report, notice, analysed,
          reloaded, now, weekly, minutes, trend, data, entered, insights, wtrend, daily_stats>>

-----------------------------------------------------------------------------
(* Bounds *)

MaxLines == 1        \* lines of THOUGHTS_FILE at startup (session)
MaxLoadLines == 2    \* lines of THOUGHTS_FILE given to load_thoughts alone
MaxThoughts == 2     \* the session stops logging at this many episodes
MaxWeekly == 3       \* episodes given to weekly_summary
MaxSeries == 6       \* values given to _calculate_trend
MaxCsvLines == 3     \* lines of DAILY_DATA_FILE given to read_daily_data
MaxWindow == 7       \* episodes given to weekly_summary for its trend
MaxStored == 11      \* episodes given to analyze_patterns
TicksPerSec == 2     \* clock ticks per second (datetime.now() is finer than a second)

-----------------------------------------------------------------------------
(* Text *)

Whitespace == {" "}
DigitChars == <<"0", "1", "2", "3", "4", "5", "6", "7", "8", "9">>
AsciiDigit == {DigitChars[i] : i \in 1..10}
\* characters for which str.isdigit() is true and int() raises ValueError
SuperDigit == {"sup2"}

DigitVal(c) == (CHOOSE i \in 1..10 : DigitChars[i] = c) - 1

RECURSIVE LStrip(_)
LStrip(s) == IF s = <<>> THEN s
             ELSE IF Head(s) \in Whitespace THEN LStrip(Tail(s)) ELSE s

RECURSIVE RStrip(_)
RStrip(s) == IF s = <<>> THEN s
             ELSE IF s[Len(s)] \in Whitespace THEN RStrip(SubSeq(s, 1, Len(s) - 1)) ELSE s

\* str.strip()
Strip(s) == RStrip(LStrip(s))

Contains(s, c) == \E i \in 1..Len(s) : s[i] = c

\* str.split(sep) for a one-character separator
RECURSIVE Split(_, _)
Split(s, sep) ==
    IF ~Contains(s, sep) THEN <<s>>
    ELSE LET i == CHOOSE k \in 1..Len(s) : s[k] = sep /\ \A j \in 1..(k - 1) : s[j] # sep
         IN  <<SubSeq(s, 1, i - 1)>> \o Split(SubSeq(s, i + 1, Len(s)), sep)

\* str.isdigit()
IsDigit(s) == s # <<>> /\ \A i \in 1..Len(s) : s[i] \in (AsciiDigit \cup SuperDigit)

RECURSIVE DigitsValue(_)
DigitsValue(s) == IF s = <<>> THEN 0
                  ELSE 10 * DigitsValue(SubSeq(s, 1, Len(s) - 1)) + DigitVal(s[Len(s)])

AllAsciiDigits(s) == s # <<>> /\ \A i \in 1..Len(s) : s[i] \in AsciiDigit

\* int(s) and float(s) on the texts of the model: optional surrounding
\* whitespace, an optional sign, then decimal digits; anything else is ValueError
PyInt(s) ==
    LET t == Strip(s)
        signed == t # <<>> /\ Head(t) \in {"-", "+"}
        body == IF signed THEN Tail(t) ELSE t
    IN  IF AllAsciiDigits(body)
        THEN [ok |-> TRUE, val |-> IF signed /\ Head(t) = "-" THEN 0 - DigitsValue(body)
                                   ELSE DigitsValue(body)]
        ELSE [ok |-> FALSE, val |-> 0]

\* str(n) as the f-string of save_thoughts formats an int
RECURSIVE NatToStr(_)
NatToStr(n) == IF n < 10 THEN <<DigitChars[n + 1]>>
               ELSE NatToStr(n \div 10) \o <<DigitChars[(n % 10) + 1]>>

IntToStr(n) == IF n < 0 THEN <<"-">> \o NatToStr(0 - n) ELSE NatToStr(n)

\* float(s) on the texts of the model (no '.', exponent, 'inf' or 'nan' occurs in them)
PyFloat(s) == PyInt(s)

UpperLetters == <<"A", "B", "C", "D", "E", "F", "G", "H", "I", "J", "K", "L", "M",
                  "N", "O", "P", "Q", "R", "S", "T", "U", "V", "W", "X", "Y", "Z">>
LowerLetters == <<"a", "b", "c", "d", "e", "f", "g", "h", "i", "j", "k", "l", "m",
                  "n", "o", "p", "q", "r", "s", "t", "u", "v", "w", "x", "y", "z">>

LowerChar(c) == IF \E i \in 1..26 : UpperLetters[i] = c
                THEN LowerLetters[CHOOSE i \in 1..26 : UpperLetters[i] = c]
                ELSE c

\* str.lower()
Lower(s) == [i \in 1..Len(s) |-> LowerChar(s[i])]

\* k in s, for texts
IsSubstring(k, s) == \E i \in 0..(Len(s) - Len(k)) : SubSeq(s, i + 1, i + Len(k)) = k

-----------------------------------------------------------------------------
(* Double-precision arithmetic: the float type of the interpreter.          *)
(* A natural number of any size is a little-endian sequence of limbs below  *)
(* Base with no zero limb on top; a double is [sign, m, e] standing for     *)
(* sign * m * 2^e with m of exactly MantissaBits bits (sign = 0: zero).     *)

LimbBits == 14
Base == 2 ^ LimbBits
MantissaBits == 53
\* limbs produced after the integer part of a quotient
QuotientLimbs == 5

RECURSIVE Trim(_)
Trim(N) == IF N # <<>> /\ N[Len(N)] = 0 THEN Trim(SubSeq(N, 1, Len(N) - 1)) ELSE N

RECURSIVE BitLenSmall(_)
BitLenSmall(x) == IF x = 0 THEN 0 ELSE 1 + BitLenSmall(x \div 2)

BitLen(N) == IF N = <<>> THEN 0 ELSE LimbBits * (Len(N) - 1) + BitLenSmall(N[Len(N)])

LimbAt(N, i) == IF i >= 1 /\ i <= Len(N) THEN N[i] ELSE 0

Bit(N, j) == (LimbAt(N, (j \div LimbBits) + 1) \div (2 ^ (j % LimbBits))) % 2

LowBitsZero(N, j) == \A k \in 0..(j - 1) : Bit(N, k) = 0

\* floor(N / 2^sh)
ShiftRight(N, sh) ==
    LET w == sh \div LimbBits
        b == sh % LimbBits
    IN  Trim([i \in 1..Len(N) |->
                (LimbAt(N, i + w) \div (2 ^ b))
                + (LimbAt(N, i + w + 1) % (2 ^ b)) * (2 ^ (LimbBits - b))])

RECURSIVE Inc(_)
Inc(N) == IF N = <<>> THEN <<1>>
          ELSE IF Head(N) + 1 < Base THEN <<Head(N) + 1>> \o Tail(N)
          ELSE <<0>> \o Inc(Tail(N))

RECURSIVE ColSum(_, _, _, _)
ColSum(A, B, k, i) ==
    IF i > Len(A) THEN 0
    ELSE A[i] * LimbAt(B, k + 2 - i) + ColSum(A, B, k, i + 1)

RECURSIVE MulCarry(_, _, _, _)
MulCarry(A, B, k, carry) ==
    IF k > Len(A) + Len(B) - 2 /\ carry = 0 THEN <<>>
    ELSE LET v == ColSum(A, B, k, 1) + carry
         IN  <<v % Base>> \o MulCarry(A, B, k + 1, v \div Base)

\* the product of two naturals
Mul(A, B) == IF A = <<>> \/ B = <<>> THEN <<>> ELSE Trim(MulCarry(A, B, 0, 0))

RECURSIVE LimbsLess(_, _)
LimbsLess(A, B) ==
    IF Len(A) # Len(B) THEN Len(A) < Len(B)
    ELSE IF A = <<>> THEN FALSE
    ELSE IF A[Len(A)] # B[Len(B)] THEN A[Len(A)] < B[Len(B)]
    ELSE LimbsLess(SubSeq(A, 1, Len(A) - 1), SubSeq(B, 1, Len(B) - 1))

\* N * 2^e (N of more than MantissaBits bits; sticky: a nonzero part below N was
\* dropped) rounded to the nearest double, ties to even
Round53(N, e, sticky) ==
    LET sh == BitLen(N) - MantissaBits
        q == ShiftRight(N, sh)
        up == Bit(N, sh - 1) = 1 /\ (sticky \/ ~LowBitsZero(N, sh - 1) \/ Bit(N, sh) = 1)
        r == IF up THEN Inc(q) ELSE q
    IN  IF BitLen(r) > MantissaBits
        THEN [m |-> ShiftRight(r, 1), e |-> e + sh + 1]
        ELSE [m |-> r, e |-> e + sh]

\* the limbs of r / d after the point, most significant first
RECURSIVE QuotLimbs(_, _, _)
QuotLimbs(r, d, k) ==
    IF k = 0 THEN <<>>
    ELSE <<(r * Base) \div d>> \o QuotLimbs((r * Base) % d, d, k - 1)

RECURSIVE QuotRem(_, _, _)
QuotRem(r, d, k) == IF k = 0 THEN r ELSE QuotRem((r * Base) % d, d, k - 1)

Reverse(q) == [i \in 1..Len(q) |-> q[Len(q) + 1 - i]]

FlZero == [sign |-> 0, m |-> <<>>, e |-> 0]

\* s / d for an integer-valued double s and a positive int d (|s| < Base * d)
FlDiv(s, d) ==
    IF s = 0 THEN FlZero
    ELSE LET n == IF s < 0 THEN 0 - s ELSE s
             N == Trim(Reverse(<<n \div d>> \o QuotLimbs(n % d, d, QuotientLimbs)))
             r == Round53(N, 0 - LimbBits * QuotientLimbs, QuotRem(n % d, d, QuotientLimbs) # 0)
         IN  [sign |-> IF s < 0 THEN -1 ELSE 1, m |-> r.m, e |-> r.e]

\* x * y
FlMul(x, y) ==
    IF x.sign = 0 \/ y.sign = 0 THEN FlZero
    ELSE LET r == Round53(Mul(x.m, y.m), x.e + y.e, FALSE)
         IN  [sign |-> x.sign * y.sign, m |-> r.m, e |-> r.e]

MagLess(x, y) == x.e < y.e \/ (x.e = y.e /\ LimbsLess(x.m, y.m))

\* x < y
FlLess(x, y) ==
    IF x.sign # y.sign THEN x.sign < y.sign
    ELSE IF x.sign = 1 THEN MagLess(x, y)
    ELSE IF x.sign = -1 THEN MagLess(y, x)
    ELSE FALSE

-----------------------------------------------------------------------------
(* Clock and timestamps *)

\* the text strftime("%Y-%m-%d %H:%M:%S") gives for second 0, 1, 2, ...
TimestampText == <<"T0", "T1", "T2", "T3">>

\* datetime.now().strftime(...): the sub-second part is dropped
Strftime(t) == <<TimestampText[(t \div TicksPerSec) + 1]>>

\* datetime.strptime(s, "%Y-%m-%d %H:%M:%S"): the instant in ticks, or ValueError
Strptime(s) ==
    IF Len(s) = 1 /\ \E i \in 1..Len(TimestampText) : TimestampText[i] = s[1]
    THEN [ok |-> TRUE,
          val |-> ((CHOOSE i \in 1..Len(TimestampText) : TimestampText[i] = s[1]) - 1) * TicksPerSec]
    ELSE [ok |-> FALSE, val |-> 0]

-----------------------------------------------------------------------------
(* Episode log *)

CATEGORIES ==
    [k \in {<<"1">>, <<"2">>, <<"3">>, <<"4">>, <<"5">>, <<"6">>, <<"7">>} |->
        CASE k = <<"1">> -> <<"E1", " ", "Career/Work">>
          [] k = <<"2">> -> <<"E2", " ", "Relationships">>
          [] k = <<"3">> -> <<"E3", " ", "Future/Uncertainty">>
          [] k = <<"4">> -> <<"E4", " ", "Money/Finance">>
          [] k = <<"5">> -> <<"E5", " ", "Health/Body">>
          [] k = <<"6">> -> <<"E6", " ", "Social/Friends">>
          [] k = <<"7">> -> <<"E7", " ", "Other">>]

NoFile == [exists |-> FALSE, lines |-> <<>>]

\* the intensity expression of load_thoughts:
\* int(parts[2].strip()) if parts[2].strip().isdigit() else 5
LoadIntensity(field) ==
    IF IsDigit(Strip(field)) THEN PyInt(Strip(field)) ELSE [ok |-> TRUE, val |-> 5]

\* the body of the loop of load_thoughts for one line: the episode it appends
\* ("append"), nothing ("skip"), or the ValueError that ends the loop ("raise")
ParseLine(raw) ==
    LET line == Strip(raw)
        parts == Split(line, "|")
    IN  IF line # <<>> /\ Contains(line, "|") /\ Len(parts) >= 4
        THEN IF LoadIntensity(parts[3]).ok
             THEN [kind |-> "append",
                   thought |-> [timestamp |-> Strip(parts[1]),
                                category |-> Strip(parts[2]),
                                intensity |-> LoadIntensity(parts[3]).val,
                                note |-> Strip(parts[4])]]
             ELSE [kind |-> "raise"]
        ELSE [kind |-> "skip"]

\* load_thoughts: the list after the loop, or after the exception that ends it
RECURSIVE LoadLines(_, _)
LoadLines(lines, acc) ==
    IF lines = <<>> THEN acc
    ELSE LET r == ParseLine(Head(lines))
         IN  CASE r.kind = "append" -> LoadLines(Tail(lines), Append(acc, r.thought))
               [] r.kind = "skip" -> LoadLines(Tail(lines), acc)
               [] r.kind = "raise" -> acc

load_thoughts(file) == IF ~file.exists THEN <<>> ELSE LoadLines(file.lines, <<>>)

\* SerializeThought with category and intensity written in the wrong order
SerializeThoughtSwapped(t) ==
    t.timestamp \o <<"|">> \o IntToStr(t.intensity) \o <<"|">> \o t.category \o <<"|">> \o t.note

\* the line save_thoughts writes for one episode (without the newline)
SerializeThought(t) ==
    t.timestamp \o <<"|">> \o t.category \o <<"|">> \o IntToStr(t.intensity) \o <<"|">> \o t.note

Serialize(ts) == [i \in 1..Len(ts) |-> SerializeThought(ts[i])]

\* save_thoughts without the dry-run guard
save_thoughts_always(file, ts, dry, io_ok) ==
    IF io_ok THEN [exists |-> TRUE, lines |-> Serialize(ts)] ELSE file

\* save_thoughts opening the file in append mode and writing the newest episode
save_thoughts_append(file, ts, dry, io_ok) ==
    IF dry \/ ~io_ok THEN file
    ELSE [exists |-> TRUE,
          lines |-> file.lines \o (IF ts = <<>> THEN <<>> ELSE <<SerializeThought(ts[Len(ts)])>>)]

\* save_thoughts: the file afterwards; io_ok = FALSE is open(..., 'w') raising
save_thoughts(file, ts, dry, io_ok) ==
    IF dry THEN file
    ELSE IF io_ok THEN [exists |-> TRUE, lines |-> Serialize(ts)]
    ELSE file

\* log_overthinking that appends and saves once the category is accepted, before
\* it looks at the intensity (a text that is no number in 1..10 is stored as 5)
log_overthinking_append_first(cat_in, int_in, note_in, t, io_ok) ==
    LET cat_choice == Strip(cat_in)
        parsed == PyInt(Strip(int_in))
        accepted == /\ Lower(cat_choice) # <<"c", "a", "n", "c", "e", "l">>
                    /\ cat_choice \in DOMAIN CATEGORIES
    IN  IF accepted
        THEN LET thought == [timestamp |-> Strftime(t),
                             category |-> CATEGORIES[cat_choice],
                             intensity |-> IF parsed.ok /\ parsed.val \in 1..10
                                           THEN parsed.val ELSE 5,
                             note |-> Strip(note_in)]
             IN  /\ thoughts' = Append(thoughts, thought)
                 /\ logfile' = save_thoughts(logfile, Append(thoughts, thought), dry_run, io_ok)
                 /\ saved' = (saved \/ (~dry_run /\ io_ok))
                 /\ save_calls' = save_calls + 1
                 /\ write_failed' = (write_failed \/ (~dry_run /\ ~io_ok))
        ELSE UNCHANGED <<thoughts, logfile, saved, save_calls, write_failed>>

\* log_overthinking: the three prompts, validation, append and save.
\* t is datetime.now()
log_overthinking(cat_in, int_in, note_in, t, io_ok) ==
    LET cat_choice == Strip(cat_in)
        intensity_str == Strip(int_in)
        parsed == PyInt(intensity_str)
        note == Strip(note_in)
        accepted == /\ Lower(cat_choice) # <<"c", "a", "n", "c", "e", "l">>
                    /\ cat_choice \in DOMAIN CATEGORIES
                    /\ parsed.ok
                    /\ 1 <= parsed.val /\ parsed.val <= 10
    IN  IF accepted
        THEN LET thought == [timestamp |-> Strftime(t),
                             category |-> CATEGORIES[cat_choice],
                             intensity |-> parsed.val,
                             note |-> note]
             IN  /\ thoughts' = Append(thoughts, thought)
                 /\ logfile' = save_thoughts(logfile, Append(thoughts, thought), dry_run, io_ok)
                 /\ saved' = (saved \/ (~dry_run /\ io_ok))
                 /\ save_calls' = save_calls + 1
                 /\ write_failed' = (write_failed \/ (~dry_run /\ ~io_ok))
        ELSE UNCHANGED <<thoughts, logfile, saved, save_calls, write_failed>>

-----------------------------------------------------------------------------
(* Pattern analysis *)

\* sum(t['intensity'] for t in ts)
RECURSIVE IntensitySum(_)
IntensitySum(ts) == IF ts = <<>> THEN 0 ELSE Head(ts).intensity + IntensitySum(Tail(ts))

\* the loop of analyze_patterns: the episodes whose timestamp strptime accepts
ParsedThoughts(ts) == SelectSeq(ts, LAMBDA e : Strptime(e.timestamp).ok)

\* self.thoughts[-7:]
LastSeven(ts) == SubSeq(ts, IF Len(ts) > 7 THEN Len(ts) - 6 ELSE 1, Len(ts))

\* analyze_patterns: what it reports. avg_intensity is kept as a fraction; the
\* hour, period and category tallies it also prints are left out
analyze_patterns(ts) ==
    IF ts = <<>> THEN [outcome |-> "Not enough data yet"]
    ELSE IF ParsedThoughts(ts) = <<>> THEN [outcome |-> "Could not analyze timestamps"]
    ELSE LET intensity_sum == IntensitySum(ParsedThoughts(ts))
             recent_week == LastSeven(ts)
         IN  [outcome |-> "insights",
              total_episodes |-> Len(ts),
              avg_intensity |-> [num |-> intensity_sum, den |-> Len(ts)],
              high_intensity |-> intensity_sum >= 7 * Len(ts),
              frequent |-> Len(ts) > 10 /\ Len(recent_week) >= 5]

-----------------------------------------------------------------------------
(* Weekly filter *)

\* timedelta(days=7)
SevenDays == 7 * 86400 * TicksPerSec

\* WeeklyLoop with dt > seven_days_ago
RECURSIVE WeeklyLoopStrict(_, _, _)
WeeklyLoopStrict(ts, seven_days_ago, acc) ==
    IF ts = <<>> THEN acc
    ELSE LET dt == Strptime(Head(ts).timestamp)
         IN  IF dt.ok /\ dt.val > seven_days_ago
             THEN WeeklyLoopStrict(Tail(ts), seven_days_ago, Append(acc, Head(ts)))
             ELSE WeeklyLoopStrict(Tail(ts), seven_days_ago, acc)

\* the loop of weekly_summary that builds weekly_thoughts
RECURSIVE WeeklyLoop(_, _, _)
WeeklyLoop(ts, seven_days_ago, acc) ==
    IF ts = <<>> THEN acc
    ELSE LET dt == Strptime(Head(ts).timestamp)
         IN  IF dt.ok /\ dt.val >= seven_days_ago
             THEN WeeklyLoop(Tail(ts), seven_days_ago, Append(acc, Head(ts)))
             ELSE WeeklyLoop(Tail(ts), seven_days_ago, acc)

weekly_thoughts(ts, t) == WeeklyLoop(ts, t - SevenDays, <<>>)

\* the "WEEKLY TREND" block of weekly_summary, in the double arithmetic of the
\* interpreter: the word it prints, "none" when it prints no trend
weekly_trend(wt) ==
    IF Len(wt) >= 6
    THEN LET half == Len(wt) \div 2
             first_avg == FlDiv(IntensitySum(SubSeq(wt, 1, half)), half)
             second_avg == FlDiv(IntensitySum(SubSeq(wt, half + 1, Len(wt))), Len(wt) - half)
         IN  IF FlLess(second_avg, FlMul(first_avg, FlDiv(85, 100))) THEN "IMPROVING"
             ELSE IF FlLess(FlMul(first_avg, FlDiv(115, 100)), second_avg) THEN "INCREASING"
             ELSE "STABLE"
    ELSE "none"

-----------------------------------------------------------------------------
(* Daily series *)

KEYWORDS == {<<"d", "a", "t", "e">>, <<"m", "i", "n", "u", "t", "e", "s">>,
             <<"t", "i", "m", "e">>, <<"d", "u", "r", "a", "t", "i", "o", "n">>}

\* ReadLoop that skips a header only when it finds a keyword in it
RECURSIVE ReadLoopKeywordOnly(_, _, _)
ReadLoopKeywordOnly(lines, line_num, acc) ==
    IF line_num > Len(lines) THEN acc
    ELSE LET line == Strip(lines[line_num])
             parts == Split(line, ",")
         IN  IF line = <<>> THEN ReadLoopKeywordOnly(lines, line_num + 1, acc)
             ELSE IF \E keyword \in KEYWORDS : IsSubstring(keyword, Lower(line))
             THEN ReadLoopKeywordOnly(lines, line_num + 1, acc)
             ELSE IF Len(parts) >= 2 /\ PyFloat(Strip(parts[2])).ok
             THEN ReadLoopKeywordOnly(lines, line_num + 1,
                           Append(acc, [date |-> Strip(parts[1]),
                                        minutes |-> PyFloat(Strip(parts[2])).val]))
             ELSE ReadLoopKeywordOnly(lines, line_num + 1, acc)

\* the loop of read_daily_data over enumerate(lines, 1)
RECURSIVE ReadLoop(_, _, _)
ReadLoop(lines, line_num, acc) ==
    IF line_num > Len(lines) THEN acc
    ELSE LET line == Strip(lines[line_num])
             parts == Split(line, ",")
         IN  IF line = <<>> THEN ReadLoop(lines, line_num + 1, acc)
             ELSE IF line_num = 1 \/ \E keyword \in KEYWORDS : IsSubstring(keyword, Lower(line))
             THEN ReadLoop(lines, line_num + 1, acc)
             ELSE IF Len(parts) >= 2 /\ PyFloat(Strip(parts[2])).ok
             THEN ReadLoop(lines, line_num + 1,
                           Append(acc, [date |-> Strip(parts[1]),
                                        minutes |-> PyFloat(Strip(parts[2])).val]))
             ELSE ReadLoop(lines, line_num + 1, acc)

read_daily_data(file) == IF ~file.exists THEN <<>> ELSE ReadLoop(file.lines, 1, <<>>)

RECURSIVE Sum(_)
Sum(s) == IF s = <<>> THEN 0 ELSE Head(s) + Sum(Tail(s))

\* _calculate_trend, in the double arithmetic of the interpreter
_calculate_trend(ms) ==
    IF Len(ms) < 2 THEN "neutral"
    ELSE LET mid == Len(ms) \div 2
             first_half_avg == FlDiv(Sum(SubSeq(ms, 1, mid)), mid)
             second_half_avg == FlDiv(Sum(SubSeq(ms, mid + 1, Len(ms))), Len(ms) - mid)
         IN  IF FlLess(second_half_avg, FlMul(first_half_avg, FlDiv(9, 10))) THEN "improving"
             ELSE IF FlLess(FlMul(first_half_avg, FlDiv(11, 10)), second_half_avg)
             THEN "increasing"
             ELSE "stable"

RECURSIVE Insert(_, _)
Insert(x, s) == IF s = <<>> THEN <<x>>
                ELSE IF x <= Head(s) THEN <<x>> \o s
                ELSE <<Head(s)>> \o Insert(x, Tail(s))

\* sorted(values)
RECURSIVE Sorted(_)
Sorted(s) == IF s = <<>> THEN s ELSE Insert(Head(s), Sorted(Tail(s)))

\* _calculate_median, as a fraction
_calculate_median(values) ==
    LET sorted_vals == Sorted(values)
        n == Len(sorted_vals)
        mid == n \div 2
    IN  IF n % 2 = 0
        THEN [num |-> sorted_vals[mid] + sorted_vals[mid + 1], den |-> 2]
        ELSE [num |-> sorted_vals[mid + 1], den |-> 1]

Max(S) == CHOOSE x \in S : \A y \in S : y <= x
Min(S) == CHOOSE x \in S : \A y \in S : x <= y

\* None, and an attribute of main that was never assigned
None == [set |-> FALSE]

\* calculate_stats; the quotients are kept as fractions
calculate_stats(d) ==
    IF d = <<>> THEN None
    ELSE LET ms == [i \in 1..Len(d) |-> d[i].minutes]
         IN  [set |-> TRUE,
              days_tracked |-> Len(ms),
              avg_minutes |-> [num |-> Sum(ms), den |-> Len(ms)],
              median_minutes |-> _calculate_median(ms),
              highest_day |-> Max({ms[i] : i \in 1..Len(ms)}),
              lowest_day |-> Min({ms[i] : i \in 1..Len(ms)}),
              total_hours |-> [num |-> Sum(ms), den |-> 60],
              trend |-> _calculate_trend(ms)]

\* analyze_daily_data: the value it returns (the rest of it prints)
analyze_daily_data(file) == calculate_stats(read_daily_data(file))

NoReport == [exists |-> FALSE]

\* export_report: the message it prints
export_notice(stats, io_ok) ==
    IF ~stats.set THEN "No statistics to export"
    ELSE IF io_ok THEN "Report exported"
    ELSE "Error exporting report"

\* export_report: REPORT_FILE afterwards; io_ok = FALSE is open(..., 'w') raising
export_report(rep, stats, d, t, io_ok) ==
    IF ~stats.set THEN rep
    ELSE IF io_ok
    THEN [exists |-> TRUE, generated |-> Strftime(t), stats |-> stats,
          entries |-> [i \in 1..Len(d) |-> d[i]]]
    ELSE rep

-----------------------------------------------------------------------------
(* The menu loop *)

\* show_menu: the handler each displayed number is labelled with
show_menu ==
    [c \in {<<"1">>, <<"2">>, <<"3">>, <<"4">>, <<"5">>, <<"6">>, <<"7">>, <<"8">>} |->
        CASE c = <<"1">> -> "log_overthinking"
          [] c = <<"2">> -> "view_history"
          [] c = <<"3">> -> "analyze_patterns"
          [] c = <<"4">> -> "weekly_summary"
          [] c = <<"5">> -> "analyze_daily_data"
          [] c = <<"6">> -> "export_report"
          [] c = <<"7">> -> "show_mental_health_tips"
          [] c = <<"8">> -> "exit"]

\* the if/elif chain of main(): the handler a stripped input runs
Dispatch(c) ==
    CASE c = <<"1">> -> "log_overthinking"
      [] c = <<"2">> -> "view_history"
      [] c = <<"3">> -> "analyze_patterns"
      [] c = <<"4">> -> "analyze_daily_data"
      [] c = <<"5">> -> "export_report"
      [] c = <<"6">> -> "show_mental_health_tips"
      [] c = <<"7">> -> "exit"
      [] OTHER -> "invalid"

\* what the user types at the menu prompt
MenuInputs == {<<"1">>, <<"2">>, <<"3">>, <<"4">>, <<"5">>, <<"6">>, <<"7">>, <<"8">>,
               <<" ", "1">>, <<"9">>}

\* what the user types at the prompts of log_overthinking
CatInputs == {<<" ", "3">>, <<"8">>, <<"C", "a", "n", "c", "e", "l">>}
IntensityInputs == {<<"1", "0", " ">>, <<"1", "1">>, <<"x">>}
NoteInputs == {<<" ", "w">>, <<"w", "|", "x">>}

\* the instants datetime.now() returns during the session
ClockTicks == 0..(TicksPerSec - 1)

\* lines THOUGHTS_FILE holds when the session starts
SessionLines == {<<"T0", "|", "w", "|", "7", "|", "x">>,
                 <<"w">>,
                 <<" ", "T1", "|", "w", "|", "1", "1", "|", "x", "|", "y">>}

RECURSIVE SeqsUpTo(_, _)
SeqsUpTo(S, n) ==
    IF n = 0 THEN {<<>>}
    ELSE LET shorter == SeqsUpTo(S, n - 1)
         IN  shorter \cup {Append(q, x) : q \in shorter, x \in S}

SessionLogFiles ==
    {NoFile} \cup {[exists |-> TRUE, lines |-> ls] : ls \in SeqsUpTo(SessionLines, MaxLines)}

\* contents DAILY_DATA_FILE takes during the session
SessionCsvFiles ==
    {NoFile,
     [exists |-> TRUE, lines |-> <<<<"D", "a", "t", "e", ",", "M">>, <<"a", ",", "4", "5">>,
                                    <<"b", ",", "3", "0">>>>],
     [exists |-> TRUE, lines |-> <<<<"a", ",", "9">>, <<"b", ",", "-", "5">>>>]}

\* nothing typed yet at the prompts of log_overthinking
NoEntry == [kind |-> "none", cat |-> <<>>, intensity |-> <<>>, note |-> <<>>]

\* analyze_patterns has not run
NoInsights == [outcome |-> "none"]

ProbesIdle ==
    /\ entered = NoEntry /\ insights = NoInsights /\ wtrend = "" /\ daily_stats = None

HarnessIdle ==
    /\ reloaded = <<>> /\ now = 0 /\ weekly = <<>> /\ minutes = <<>> /\ trend = "" /\ data = <<>>
    /\ ProbesIdle

\* analyze_daily_data has not returned statistics yet
NotAnalysed == [found |-> FALSE, stats |-> None, data |-> <<>>]

Init ==
    /\ pc = "boot"
    /\ dry_run \in BOOLEAN
    /\ audit = FALSE
    /\ thoughts = <<>>
    /\ logfile \in SessionLogFiles
    /\ saved = FALSE
    /\ save_calls = 0
    /\ write_failed = FALSE
    /\ choice = <<>>
    /\ ran = "none"
    /\ csvfile \in SessionCsvFiles
    /\ last_stats = None
    /\ last_data = None
    /\ report = NoReport
    /\ notice = ""
    /\ analysed = NotAnalysed
    /\ HarnessIdle

config == <<dry_run, audit>>
probes == <<entered, insights, wtrend, daily_stats>>
harness == <<reloaded, now, weekly, minutes, trend, data, probes>>
tracker == <<thoughts, logfile, saved, save_calls, write_failed>>
series == <<last_stats, last_data, report, analysed>>

\* tracker = OverthinkingTracker(dry_run=dry_run)
Boot ==
    /\ pc = "boot"
    /\ thoughts' = load_thoughts(logfile)
    /\ pc' = "menu"
    /\ UNCHANGED <<config, logfile, saved, save_calls, write_failed, choice, ran, csvfile,
                   series, notice, harness>>

\* the message a pass prints, as notice keeps it
Noted(msg) == IF audit THEN msg ELSE notice

\* one pass of the loop that reads input c and dispatches to handler h
Menu(c, h) ==
    /\ pc = "menu"
    /\ Dispatch(Strip(c)) = h
    /\ choice' = Strip(c)
    /\ ran' = h

\* KeyboardInterrupt at a prompt of log_overthinking: "Cancelled", caught inside it
LogInterrupted == UNCHANGED <<thoughts, logfile, saved, save_calls, write_failed>>

MainLog ==
    \E c \in MenuInputs :
        /\ Menu(c, "log_overthinking")
        /\ Len(thoughts) < MaxThoughts
        /\ \/ LogInterrupted
           \/ \E cat_in \in CatInputs, int_in \in IntensityInputs, note_in \in NoteInputs,
                 t \in ClockTicks, io_ok \in BOOLEAN :
                  log_overthinking(cat_in, int_in, note_in, t, io_ok)
        /\ notice' = Noted("")
        /\ UNCHANGED <<pc, config, csvfile, series, harness>>

MainView ==
    \E c \in MenuInputs :
        /\ Menu(c, "view_history")
        /\ notice' = Noted("")
        /\ UNCHANGED <<pc, config, tracker, csvfile, series, harness>>

MainAnalyze ==
    \E c \in MenuInputs :
        /\ Menu(c, "analyze_patterns")
        /\ notice' = Noted("")
        /\ UNCHANGED <<pc, config, tracker, csvfile, series, harness>>

\* MainCsv that stores main.last_data only while main has none
MainCsvKeepsData ==
    \E c \in MenuInputs :
        /\ Menu(c, "analyze_daily_data")
        /\ LET returned == analyze_daily_data(csvfile)
           IN  /\ IF returned.set
                  THEN /\ last_stats' = returned
                       /\ last_data' = IF last_data.set THEN last_data
                                       ELSE [set |-> TRUE, list |-> read_daily_data(csvfile)]
                       /\ notice' = Noted("")
                  ELSE /\ UNCHANGED <<last_stats, last_data>>
                       /\ notice' = Noted("No daily data found to analyze")
               /\ analysed' = IF ~audit THEN analysed
                              ELSE IF returned.set
                              THEN [found |-> TRUE, stats |-> returned,
                                    data |-> read_daily_data(csvfile)]
                              ELSE [analysed EXCEPT !.found = FALSE]
        /\ UNCHANGED <<pc, config, tracker, csvfile, report, harness>>

\* choice '4': analyze_daily_data reads the file and main, when it returned
\* statistics, reads the file again for main.last_data
MainCsv ==
    \E c \in MenuInputs :
        /\ Menu(c, "analyze_daily_data")
        /\ LET returned == analyze_daily_data(csvfile)
           IN  /\ IF returned.set
                  THEN /\ last_stats' = returned
                       /\ last_data' = [set |-> TRUE, list |-> read_daily_data(csvfile)]
                       /\ notice' = Noted("")
                  ELSE /\ UNCHANGED <<last_stats, last_data>>
                       /\ notice' = Noted("No daily data found to analyze")
               /\ analysed' = IF ~audit THEN analysed
                              ELSE IF returned.set
                              THEN [found |-> TRUE, stats |-> returned,
                                    data |-> read_daily_data(csvfile)]
                              ELSE [analysed EXCEPT !.found = FALSE]
        /\ UNCHANGED <<pc, config, tracker, csvfile, report, harness>>

\* export_report called with nothing to shield it from a missing snapshot
MainExportUnguarded ==
    \E c \in MenuInputs :
        /\ Menu(c, "export_report")
        /\ \E t \in ClockTicks :
               report' = [exists |-> TRUE, generated |-> Strftime(t), stats |-> last_stats,
                          entries |-> IF last_data.set THEN last_data.list ELSE <<>>]
        /\ notice' = Noted("Report exported")
        /\ UNCHANGED <<pc, config, tracker, csvfile, last_stats, last_data, analysed, harness>>

\* choice '5'
MainExport ==
    \E c \in MenuInputs :
        /\ Menu(c, "export_report")
        /\ IF last_stats.set /\ last_data.set
           THEN \E t \in ClockTicks, io_ok \in BOOLEAN :
                    /\ report' = export_report(report, last_stats, last_data.list, t, io_ok)
                    /\ notice' = Noted(export_notice(last_stats, io_ok))
           ELSE /\ UNCHANGED report
                /\ notice' = Noted("Please analyze daily data first")
        /\ UNCHANGED <<pc, config, tracker, csvfile, last_stats, last_data, analysed, harness>>

MainTips ==
    \E c \in MenuInputs :
        /\ Menu(c, "show_mental_health_tips")
        /\ notice' = Noted("")
        /\ UNCHANGED <<pc, config, tracker, csvfile, series, harness>>

MainExit ==
    \E c \in MenuInputs :
        /\ Menu(c, "exit")
        /\ pc' = "exited"
        /\ notice' = Noted("TAKE CARE")
        /\ UNCHANGED <<config, tracker, csvfile, series, harness>>

MainInvalid ==
    \E c \in MenuInputs :
        /\ Menu(c, "invalid")
        /\ notice' = Noted("Invalid choice")
        /\ UNCHANGED <<pc, config, tracker, csvfile, series, harness>>

\* KeyboardInterrupt at the menu prompt
MainInterrupt ==
    /\ pc = "menu"
    /\ pc' = "exited"
    /\ ran' = "interrupt"
    /\ notice' = Noted("Interrupted by user")
    /\ UNCHANGED <<config, tracker, choice, csvfile, series, harness>>

\* the generic handler of the loop ending it instead of going round again
MainErrorBreaks ==
    /\ pc = "menu"
    /\ pc' = "exited"
    /\ choice' = <<>>
    /\ ran' = "error"
    /\ notice' = Noted("An unexpected error occurred")
    /\ UNCHANGED <<config, tracker, csvfile, series, harness>>

\* an exception other than KeyboardInterrupt inside the try of the loop (input()
\* raising EOFError at the menu prompt): reported, and the loop goes round again
MainError ==
    /\ pc = "menu"
    /\ choice' = <<>>
    /\ ran' = "error"
    /\ notice' = Noted("An unexpected error occurred")
    /\ UNCHANGED <<pc, config, tracker, csvfile, series, harness>>

\* DAILY_DATA_FILE is edited, created or removed outside the program
CsvChanges ==
    /\ pc = "menu"
    /\ csvfile' \in SessionCsvFiles \ {csvfile}
    /\ UNCHANGED <<pc, config, tracker, choice, ran, series, notice, harness>>

Next ==
    \/ Boot
    \/ MainLog
    \/ MainView
    \/ MainAnalyze
    \/ MainCsv
    \/ MainExport
    \/ MainTips
    \/ MainExit
    \/ MainInvalid
    \/ MainInterrupt
    \/ MainError
    \/ CsvChanges

Spec == Init /\ [][Next]_vars

\* the session with the message of each pass and the analysis history kept,
\* started without a log file
InitAudited ==
    /\ pc = "boot"
    /\ dry_run \in BOOLEAN
    /\ audit = TRUE
    /\ thoughts = <<>>
    /\ logfile = NoFile
    /\ saved = FALSE
    /\ save_calls = 0
    /\ write_failed = FALSE
    /\ choice = <<>>
    /\ ran = "none"
    /\ csvfile \in SessionCsvFiles
    /\ last_stats = None
    /\ last_data = None
    /\ report = NoReport
    /\ notice = ""
    /\ analysed = NotAnalysed
    /\ HarnessIdle

SpecAudited == InitAudited /\ [][Next]_vars

-----------------------------------------------------------------------------
(* load_thoughts, log_overthinking and save_thoughts on their own *)

LogLines == {<<>>,
             <<"w">>,
             <<"T0", "|", "w">>,
             <<"T0", "|", "w", "|", "7">>,
             <<"T0", "|", "w", "|", "7", "|", "x">>,
             <<" ", "T1", " ", "|", " ", "w", "|", " ", "0", "7", "|", "x", " ">>,
             <<"T0", "|", "w", "|", "7", "|", "x", "|", "y">>,
             <<"T0", "|", "w", "|", "x", "|">>,
             <<"T0", "|", "w", "|", "1", "1", "|", "x">>,
             <<"T0", "|", "w", "|", "0", "|", "x">>,
             <<"T0", "|", "w", "|", "-", "3", "|", "x">>,
             <<"T0", "|", "w", "|", "sup2", "|", "x">>,
             <<"|", "|", "|">>,
             <<"w", "|", "w", "|", "1", "0", "|", "x">>}

LoadFiles ==
    {NoFile} \cup {[exists |-> TRUE, lines |-> ls] : ls \in SeqsUpTo(LogLines, MaxLoadLines)}

SessionIdle ==
    /\ saved = FALSE /\ save_calls = 0 /\ write_failed = FALSE /\ choice = <<>> /\ ran = "none"
    /\ csvfile = NoFile /\ last_stats = None /\ last_data = None /\ report = NoReport
    /\ notice = "" /\ analysed = NotAnalysed

session == <<choice, ran, csvfile, last_stats, last_data, report, notice, analysed>>

InitLoad ==
    /\ pc = "load_start"
    /\ dry_run = FALSE
    /\ audit = FALSE
    /\ thoughts = <<>>
    /\ logfile \in LoadFiles
    /\ SessionIdle
    /\ HarnessIdle

H_Load ==
    /\ pc = "load_start"
    /\ thoughts' = load_thoughts(logfile)
    /\ pc' = "loaded"
    /\ UNCHANGED <<config, logfile, saved, save_calls, write_failed, session, harness>>

H_Log ==
    /\ pc = "loaded"
    /\ \E cat_in \in CatInputs, int_in \in IntensityInputs, note_in \in NoteInputs,
          t \in ClockTicks, io_ok \in BOOLEAN :
           log_overthinking(cat_in, int_in, note_in, t, io_ok)
    /\ pc' = "logged"
    /\ UNCHANGED <<config, session, harness>>

H_Save ==
    /\ pc \in {"loaded", "logged"}
    /\ logfile' = save_thoughts(logfile, thoughts, dry_run, TRUE)
    /\ saved' = TRUE
    /\ save_calls' = save_calls + 1
    /\ pc' = "saved"
    /\ UNCHANGED <<config, thoughts, write_failed, session, harness>>

H_Reload ==
    /\ pc = "saved"
    /\ reloaded' = load_thoughts(logfile)
    /\ pc' = "reloaded"
    /\ UNCHANGED <<config, tracker, session, now, weekly, minutes, trend, data, probes>>

NextLoad == H_Load \/ H_Log \/ H_Save \/ H_Reload

SpecLoad == InitLoad /\ [][NextLoad]_vars

-----------------------------------------------------------------------------
(* weekly_summary on its own *)

WeeklyEpisodes ==
    {[timestamp |-> ts, category |-> CATEGORIES[<<"1">>], intensity |-> i, note |-> <<>>] :
        ts \in {<<"T0">>, <<"T1">>, <<"T2">>, <<"w">>}, i \in {3, 8}}

\* values of datetime.now(): seven days after the first three seconds, to the tick
NowSet == {SevenDays + k : k \in 0..(3 * TicksPerSec - 1)}

InitWeekly ==
    /\ pc = "weekly_start"
    /\ dry_run = FALSE
    /\ audit = FALSE
    /\ thoughts \in SeqsUpTo(WeeklyEpisodes, MaxWeekly)
    /\ logfile = NoFile
    /\ SessionIdle
    /\ reloaded = <<>> /\ weekly = <<>> /\ minutes = <<>> /\ trend = "" /\ data = <<>>
    /\ ProbesIdle
    /\ now \in NowSet

H_Weekly ==
    /\ pc = "weekly_start"
    /\ weekly' = IF thoughts = <<>> THEN <<>> ELSE weekly_thoughts(thoughts, now)
    /\ wtrend' = IF thoughts = <<>> THEN "none"
                 ELSE weekly_trend(weekly_thoughts(thoughts, now))
    /\ pc' = "weekly_done"
    /\ UNCHANGED <<config, tracker, session, reloaded, now, minutes, trend, data,
                   entered, insights, daily_stats>>

NextWeekly == H_Weekly

SpecWeekly == InitWeekly /\ [][NextWeekly]_vars

\* weekly_summary on a log long enough for a trend: episodes of the current
\* week with three intensities, and one episode that has left the window
TrendEpisodes ==
    {[timestamp |-> <<"T2">>, category |-> CATEGORIES[<<"1">>], intensity |-> i, note |-> <<>>] :
        i \in {3, 5, 10}}
    \cup {[timestamp |-> <<"T0">>, category |-> CATEGORIES[<<"1">>], intensity |-> 10,
           note |-> <<>>]}

InitWeeklyTrend ==
    /\ pc = "weekly_start"
    /\ dry_run = FALSE
    /\ audit = FALSE
    /\ thoughts \in SeqsUpTo(TrendEpisodes, MaxWindow)
    /\ logfile = NoFile
    /\ SessionIdle
    /\ reloaded = <<>> /\ weekly = <<>> /\ minutes = <<>> /\ trend = "" /\ data = <<>>
    /\ ProbesIdle
    /\ now = SevenDays + TicksPerSec

SpecWeeklyTrend == InitWeeklyTrend /\ [][NextWeekly]_vars

-----------------------------------------------------------------------------
(* _calculate_trend on its own *)

\* values float() gives for fields of DAILY_DATA_FILE
MinuteValues == {0, 10, 30, 50}

InitTrend ==
    /\ pc = "trend_start"
    /\ dry_run = FALSE
    /\ audit = FALSE
    /\ thoughts = <<>>
    /\ logfile = NoFile
    /\ SessionIdle
    /\ reloaded = <<>> /\ now = 0 /\ weekly = <<>> /\ trend = "" /\ data = <<>>
    /\ ProbesIdle
    /\ minutes \in SeqsUpTo(MinuteValues, MaxSeries)

H_Trend ==
    /\ pc = "trend_start"
    /\ trend' = _calculate_trend(minutes)
    /\ pc' = "trend_done"
    /\ UNCHANGED <<config, tracker, session, reloaded, now, weekly, minutes, data, probes>>

NextTrend == H_Trend

SpecTrend == InitTrend /\ [][NextTrend]_vars

-----------------------------------------------------------------------------
(* read_daily_data on its own *)

CsvLines == {<<>>,
             <<" ">>,
             <<"D", "a", "t", "e", ",", "M", "i", "n", "u", "t", "e", "s">>,
             <<"a", ",", "4", "5">>,
             <<"b", ",", "-", "5">>,
             <<"b", ",", "r", ",", "x">>,
             <<"c">>,
             <<" ", "e", " ", ",", " ", "3", "0", " ">>,
             <<"T", "I", "M", "E", ",", "7">>,
             <<"a", ",", "7", ",", "9">>,
             <<"a", ",">>,
             <<"u", "p", "d", "a", "t", "e", ",", "5">>}

CsvFiles ==
    {NoFile} \cup {[exists |-> TRUE, lines |-> ls] : ls \in SeqsUpTo(CsvLines, MaxCsvLines)}

InitCsv ==
    /\ pc = "csv_start"
    /\ dry_run = FALSE
    /\ audit = FALSE
    /\ thoughts = <<>>
    /\ logfile = NoFile
    /\ saved = FALSE /\ save_calls = 0 /\ write_failed = FALSE /\ choice = <<>> /\ ran = "none"
    /\ last_stats = None /\ last_data = None /\ report = NoReport
    /\ notice = "" /\ analysed = NotAnalysed
    /\ HarnessIdle
    /\ csvfile \in CsvFiles

H_Read ==
    /\ pc = "csv_start"
    /\ data' = read_daily_data(csvfile)
    /\ pc' = "csv_done"
    /\ UNCHANGED <<config, tracker, session, reloaded, now, weekly, minutes, trend, probes>>

\* stats = DailyDataAnalyzer.calculate_stats(data), as analyze_daily_data calls it
H_Stats ==
    /\ pc = "csv_done"
    /\ data # <<>>
    /\ daily_stats' = calculate_stats(data)
    /\ pc' = "stats_done"
    /\ UNCHANGED <<config, tracker, session, reloaded, now, weekly, minutes, trend, data,
                   entered, insights, wtrend>>

NextCsv == H_Read \/ H_Stats

SpecCsv == InitCsv /\ [][NextCsv]_vars

-----------------------------------------------------------------------------
(* log_overthinking on its own, with what was typed kept *)

LogCatInputs == CatInputs \cup {<<"1">>, <<"0">>, <<>>, <<"c", "a", "n", "c", "e", "l", " ">>}
LogIntensityInputs == IntensityInputs \cup {<<"1">>, <<"0">>, <<"-", "3">>, <<>>, <<"sup2">>}

InitLog ==
    /\ pc = "log_ready"
    /\ dry_run \in BOOLEAN
    /\ audit = FALSE
    /\ logfile \in SessionLogFiles
    /\ thoughts = load_thoughts(logfile)
    /\ SessionIdle
    /\ HarnessIdle

H_Entry ==
    /\ pc = "log_ready"
    /\ \E cat_in \in LogCatInputs, int_in \in LogIntensityInputs, note_in \in NoteInputs,
          t \in ClockTicks, io_ok \in BOOLEAN :
           /\ log_overthinking(cat_in, int_in, note_in, t, io_ok)
           /\ entered' = [kind |-> "typed", cat |-> cat_in, intensity |-> int_in,
                          note |-> note_in]
    /\ pc' = "log_done"
    /\ UNCHANGED <<config, session, reloaded, now, weekly, minutes, trend, data,
                   insights, wtrend, daily_stats>>

\* KeyboardInterrupt at one of the prompts
H_EntryInterrupted ==
    /\ pc = "log_ready"
    /\ LogInterrupted
    /\ entered' = [NoEntry EXCEPT !.kind = "interrupted"]
    /\ pc' = "log_done"
    /\ UNCHANGED <<config, session, reloaded, now, weekly, minutes, trend, data,
                   insights, wtrend, daily_stats>>

NextLog == H_Entry \/ H_EntryInterrupted

SpecLog == InitLog /\ [][NextLog]_vars

-----------------------------------------------------------------------------
(* analyze_patterns on its own *)

\* an episode with a timestamp strptime accepts and one with a timestamp it rejects
PatternEpisodes ==
    {[timestamp |-> <<"T0">>, category |-> CATEGORIES[<<"3">>], intensity |-> 8, note |-> <<>>],
     [timestamp |-> <<"w">>, category |-> CATEGORIES[<<"1">>], intensity |-> 3, note |-> <<>>]}

InitPatterns ==
    /\ pc = "patterns_start"
    /\ dry_run = FALSE
    /\ audit = FALSE
    /\ thoughts \in SeqsUpTo(PatternEpisodes, MaxStored)
    /\ logfile = NoFile
    /\ SessionIdle
    /\ HarnessIdle

H_Analyze ==
    /\ pc = "patterns_start"
    /\ insights' = analyze_patterns(thoughts)
    /\ pc' = "patterns_done"
    /\ UNCHANGED <<config, tracker, session, reloaded, now, weekly, minutes, trend, data,
                   entered, wtrend, daily_stats>>

NextPatterns == H_Analyze

SpecPatterns == InitPatterns /\ [][NextPatterns]_vars

-----------------------------------------------------------------------------
(* Properties *)

\* C1: round trip. Every episode of the in-memory list whose note holds no '|'
\* is read back by load_thoughts, from the file save_thoughts wrote, equal in
\* timestamp, category, intensity and note, at the same position.
C1_RoundTrip ==
    pc = "reloaded" =>
        \A i \in 1..Len(thoughts) :
            ~Contains(thoughts[i].note, "|") =>
                i <= Len(reloaded) /\ reloaded[i] = thoughts[i]

C1_Witness ==
    /\ pc = "reloaded"
    /\ \E i \in 1..Len(thoughts) :
        /\ thoughts[i].note = <<"w">>
        /\ thoughts[i].intensity = 10
        /\ thoughts[i].category = CATEGORIES[<<"3">>]
        /\ reloaded[i] = thoughts[i]
    /\ \E j \in 1..Len(thoughts) : thoughts[j].intensity = 7 /\ reloaded[j] = thoughts[j]

\* C2: in dry-run mode no step of the session changes THOUGHTS_FILE, and the
\* in-memory list the session starts with is what load_thoughts reads from it.
C2_DryRunNeverWrites ==
    [][dry_run => /\ logfile' = logfile
                  /\ (pc = "boot" /\ pc' = "menu" => thoughts' = load_thoughts(logfile'))]_vars

C2_Witness ==
    /\ dry_run
    /\ ran = "log_overthinking"
    /\ logfile.exists
    /\ load_thoughts(logfile) # <<>>
    /\ Len(thoughts) = Len(load_thoughts(logfile)) + 1

\* C3 as stated: without dry run and without a write failure, from the end of
\* startup loading onward the file, when present, is exactly the serialization
\* of the in-memory list.
C3_FileIsSnapshotFromStartup ==
    (pc \in {"menu", "exited"} /\ ~dry_run /\ ~write_failed /\ logfile.exists) =>
        logfile.lines = Serialize(thoughts)

\* C3 amended: without dry run and without a write failure, once save_thoughts
\* has rewritten the file in this session the file is present and is exactly
\* the serialization of the whole in-memory list, in its order.
C3_FileIsSnapshotOnceSaved ==
    (~dry_run /\ ~write_failed /\ saved) =>
        logfile.exists /\ logfile.lines = Serialize(thoughts)

C3_Witness ==
    /\ pc = "menu"
    /\ ~dry_run /\ ~write_failed /\ saved
    /\ Len(thoughts) = 2
    /\ Len(logfile.lines) = 2
    /\ thoughts[1].intensity = 11

\* C4: entering the number show_menu displays for an option runs that option's
\* handler; the displayed exit option ends the loop.
C4_MenuRunsDisplayedOption ==
    (ran \notin {"none", "interrupt"} /\ choice \in DOMAIN show_menu) =>
        /\ ran = show_menu[choice]
        /\ (show_menu[choice] = "exit" => pc = "exited")

\* C5: after load_thoughts the list has one episode per line with at least 4
\* fields (the load is never aborted), and its intensity is the value of field
\* 3 when that is an integer in 1..10 and 5 otherwise.
C5_LoadedIntensity ==
    pc = "loaded" =>
        LET HasFourFields(l) == Len(Split(l, "|")) >= 4
            q == SelectSeq(logfile.lines, HasFourFields)
            Claimed(f) == IF AllAsciiDigits(Strip(f)) /\ DigitsValue(Strip(f)) \in 1..10
                          THEN DigitsValue(Strip(f)) ELSE 5
        IN  /\ Len(thoughts) = Len(q)
            /\ \A i \in 1..Len(thoughts) :
                /\ thoughts[i].intensity \in 1..10
                /\ i <= Len(q) => thoughts[i].intensity = Claimed(Split(q[i], "|")[3])

\* C6: after load_thoughts the list is, in file order, one episode for each line
\* with at least 4 fields, with that line's timestamp, category and note; lines
\* with fewer fields contribute nothing and change nothing around them.
C6_LoadedLines ==
    pc = "loaded" =>
        LET HasFourFields(l) == Len(Split(l, "|")) >= 4
            q == SelectSeq(logfile.lines, HasFourFields)
        IN  /\ Len(thoughts) = Len(q)
            /\ \A i \in 1..Len(thoughts) :
                i <= Len(q) =>
                    /\ thoughts[i].timestamp = Strip(Split(q[i], "|")[1])
                    /\ thoughts[i].category = Strip(Split(q[i], "|")[2])
                    /\ thoughts[i].note = Strip(Split(q[i], "|")[4])

\* C7: weekly_thoughts is, in stored order, exactly the episodes whose timestamp
\* is the text of some second s with s >= now - 7 days; the episode exactly at
\* now - 7 days is in, earlier ones and unparseable timestamps are out.
C7_WeeklyFilter ==
    (pc = "weekly_done" /\ thoughts # <<>>) =>
        LET InWindow(e) == \E k \in 1..Len(TimestampText) :
                               /\ e.timestamp = <<TimestampText[k]>>
                               /\ (k - 1) * TicksPerSec + SevenDays >= now
        IN  weekly = SelectSeq(thoughts, InWindow)

C7_Witness ==
    /\ pc = "weekly_done"
    /\ now = SevenDays + TicksPerSec
    /\ Len(thoughts) = 3
    /\ thoughts[1].timestamp = <<"T0">>
    /\ thoughts[2].timestamp = <<"w">>
    /\ thoughts[3].timestamp = <<"T1">>
    /\ weekly = <<thoughts[3]>>

\* C8: for a series of n >= 2 values split into the first floor(n/2) and the
\* rest, _calculate_trend returns improving iff mean(second) < 0.9 * mean(first),
\* increasing iff mean(second) > 1.1 * mean(first), and stable otherwise.
C8_SeriesTrend ==
    (pc = "trend_done" /\ Len(minutes) >= 2) =>
        LET mid == Len(minutes) \div 2
            rest == Len(minutes) - mid
            first == Sum(SubSeq(minutes, 1, mid))
            second == Sum(SubSeq(minutes, mid + 1, Len(minutes)))
            below == 10 * second * mid < 9 * first * rest
            above == 10 * second * mid > 11 * first * rest
        IN  /\ trend = "improving" <=> below
            /\ trend = "increasing" <=> above
            /\ trend = "stable" <=> (~below /\ ~above)

\* C9: read_daily_data returns, in file order, one entry (field 0, value of
\* field 1) for each line that is not the first, is not blank, holds no header
\* keyword in any case, has at least 2 fields and a numeric field 1; nothing else.
C9_CsvParser ==
    pc = "csv_done" =>
        LET lines == csvfile.lines
            Fields(i) == Split(lines[i], ",")
            idx == {i \in 1..Len(lines) :
                        /\ i # 1
                        /\ Strip(lines[i]) # <<>>
                        /\ \A kw \in KEYWORDS : ~IsSubstring(kw, Lower(lines[i]))
                        /\ Len(Fields(i)) >= 2
                        /\ PyFloat(Fields(i)[2]).ok}
            Nth(k) == CHOOSE i \in idx : Cardinality({j \in idx : j <= i}) = k
        IN  /\ Len(data) = Cardinality(idx)
            /\ \A k \in 1..Len(data) :
                k <= Cardinality(idx) =>
                    data[k] = [date |-> Strip(Fields(Nth(k))[1]),
                               minutes |-> PyFloat(Fields(Nth(k))[2]).val]

C9_Witness ==
    /\ pc = "csv_done"
    /\ csvfile.lines = <<<<"a", ",", "4", "5">>, <<"b", ",", "r", ",", "x">>,
                         <<" ", "e", " ", ",", " ", "3", "0", " ">>>>
    /\ data = <<[date |-> <<"e">>, minutes |-> 30]>>

\* C10: every entry of the series read_daily_data returns has minutes >= 0.
C10_MinutesNonNegative ==
    pc = "csv_done" => \A i \in 1..Len(data) : data[i].minutes >= 0

\* C11: an export taken while no analysis of the session has produced statistics
\* leaves REPORT_FILE as it was (absent stays absent), reports the failure, and
\* the loop is back at the menu.
C11_ExportBeforeAnalysis ==
    [][(pc = "menu" /\ ran' = "export_report" /\ ~analysed.stats.set) =>
          /\ report' = report
          /\ notice' \in {"Please analyze daily data first", "No statistics to export"}
          /\ pc' = "menu"]_vars

C11_Witness ==
    /\ pc = "menu"
    /\ ran = "export_report"
    /\ ~analysed.stats.set
    /\ choice = <<"5">>
    /\ notice = "Please analyze daily data first"
    /\ ~report.exists

\* C12: the loop ends only in the exit branch or on KeyboardInterrupt; a pass
\* that ran anything else (a handler, the invalid-choice branch, the generic
\* exception handler) is followed by the menu; after the end nothing runs.
C12_LoopEndsOnExitOrInterrupt ==
    [][/\ (pc = "menu" /\ pc' # "menu") => (pc' = "exited" /\ ran' \in {"exit", "interrupt"})
       /\ (pc = "menu" /\ ran' \notin {"exit", "interrupt"}) => pc' = "menu"
       /\ pc # "exited"]_vars

C12_Witness ==
    /\ pc = "menu"
    /\ ran = "error"
    /\ notice = "An unexpected error occurred"
    /\ thoughts # <<>>
    /\ last_stats.set

\* C13: the average intensity analyze_patterns reports is the sum of the
\* intensities of the episodes whose timestamp parses divided by the number of
\* those episodes.
C13_AverageOverParsed ==
    (pc = "patterns_done" /\ insights.outcome = "insights") =>
        LET parsed == SelectSeq(thoughts, LAMBDA e : Strptime(e.timestamp).ok)
        IN  insights.avg_intensity.num * Len(parsed)
                = IntensitySum(parsed) * insights.avg_intensity.den

\* C14: weekly_summary prints no trend for a window of fewer than 6 episodes;
\* for n >= 6, with the window split into its first floor(n/2) episodes and the
\* rest, the trend is improving iff mean(second) < 0.85 * mean(first),
\* increasing iff mean(second) > 1.15 * mean(first), and stable otherwise.
C14_WeeklyTrend ==
    pc = "weekly_done" =>
        LET n == Len(weekly)
            half == n \div 2
            first == IntensitySum(SubSeq(weekly, 1, half))
            second == IntensitySum(SubSeq(weekly, half + 1, n))
            below == 100 * second * half < 85 * first * (n - half)
            above == 100 * second * half > 115 * first * (n - half)
        IN  IF n < 6 THEN wtrend = "none"
            ELSE /\ wtrend = "IMPROVING" <=> below
                 /\ wtrend = "INCREASING" <=> above
                 /\ wtrend = "STABLE" <=> (~below /\ ~above)

\* C15: the trend field of the snapshot calculate_stats returns for a non-empty
\* series is improving, increasing or stable, and it is stable for a series of
\* fewer than 2 entries.
C15_TrendIsOneOfThree ==
    (pc = "stats_done" /\ data # <<>>) =>
        /\ daily_stats.trend \in {"improving", "increasing", "stable"}
        /\ (Len(data) < 2 => daily_stats.trend = "stable")

\* C16: a call of log_overthinking given 'cancel', a category outside 1-7, a
\* non-numeric intensity or an intensity outside 1..10 leaves the list and
\* THOUGHTS_FILE as they were and calls save_thoughts not at all; the list and
\* the file change only with valid inputs, and then the list grows by exactly
\* one episode at its end, with an intensity in 1..10 and a category of CATEGORIES,
\* and save_thoughts is called once.
C16_RejectedLogChangesNothing ==
    [][(pc = "log_ready" /\ pc' = "log_done") =>
          LET cat == Strip(entered'.cat)
              int == Strip(entered'.intensity)
              digits == IF int # <<>> /\ Head(int) \in {"+", "-"} THEN Tail(int) ELSE int
              numeric == digits # <<>> /\ \A i \in 1..Len(digits) : digits[i] \in AsciiDigit
              value == IF int # <<>> /\ Head(int) = "-" THEN 0 - DigitsValue(digits)
                       ELSE DigitsValue(digits)
              valid == /\ entered'.kind = "typed"
                       /\ cat \in {<<"1">>, <<"2">>, <<"3">>, <<"4">>, <<"5">>, <<"6">>, <<"7">>}
                       /\ numeric
                       /\ value \in 1..10
              unchanged == /\ thoughts' = thoughts
                           /\ logfile' = logfile
                           /\ save_calls' = save_calls
          IN  /\ ~valid => unchanged
              /\ ~unchanged =>
                    /\ valid
                    /\ Len(thoughts') = Len(thoughts) + 1
                    /\ SubSeq(thoughts', 1, Len(thoughts)) = thoughts
                    /\ thoughts'[Len(thoughts')].intensity = value
                    /\ \E k \in DOMAIN CATEGORIES :
                           thoughts'[Len(thoughts')].category = CATEGORIES[k]
                    /\ save_calls' = save_calls + 1]_vars

C16_Witness ==
    /\ pc = "log_done"
    /\ ~dry_run
    /\ entered.kind = "typed"
    /\ Strip(entered.cat) = <<"3">>
    /\ entered.intensity = <<"1", "1">>
    /\ thoughts # <<>>
    /\ thoughts = load_thoughts(logfile)
    /\ logfile.lines # Serialize(thoughts)
    /\ save_calls = 0

\* C17: the frequent-overthinking advisory of analyze_patterns is raised exactly
\* when the last 7 stored episodes, taken by position, are at least 5 episodes,
\* whatever their timestamps are.
C17_FrequentAdvisory ==
    pc = "patterns_done" =>
        LET raised == insights.outcome = "insights" /\ insights.frequent
            recent == SubSeq(thoughts, IF Len(thoughts) > 7 THEN Len(thoughts) - 6 ELSE 1,
                             Len(thoughts))
        IN  raised <=> Len(recent) >= 5

\* C18 as stated: an export that writes a report writes the statistics of the
\* most recent analyze_daily_data call of the session, the series those were
\* computed from, and days_tracked equal to the number of entries written.
C18_ExportWritesLatestAnalysis ==
    [][(pc = "menu" /\ ran' = "export_report" /\ notice' = "Report exported") =>
          /\ analysed.found
          /\ report'.stats = analysed.stats
          /\ report'.entries = analysed.data
          /\ report'.stats.days_tracked = Len(report'.entries)]_vars

\* C18 amended: an export that writes a report writes the statistics of the most
\* recent analyze_daily_data call of the session that returned statistics, the
\* series those were computed from, and days_tracked equal to the number of
\* entries written.
C18_ExportWritesLatestFound ==
    [][(pc = "menu" /\ ran' = "export_report" /\ notice' = "Report exported") =>
          /\ analysed.stats.set
          /\ report'.stats = analysed.stats
          /\ report'.entries = analysed.data
          /\ report'.stats.days_tracked = Len(report'.entries)]_vars

C18_Witness ==
    /\ pc = "menu"
    /\ ran = "export_report"
    /\ notice = "Report exported"
    /\ ~csvfile.exists
    /\ ~analysed.found
    /\ report.exists
    /\ report.stats = analysed.stats
    /\ report.stats.days_tracked = 2
    /\ Len(report.entries) = 2

====
